---- MODULE Spec2Model ----
(***************************************************************************)
(* md-prune-image: orphaned-image detection and removal.                   *)
(*                                                                         *)
(* Strings are sequences of one-character strings, paths handed to the     *)
(* filesystem are such strings, and canonical paths are sequences of       *)
(* components (each component a string).  The filesystem is a function     *)
(* from canonical paths to nodes (directory, regular file, symbolic link). *)
(***************************************************************************)
EXTENDS Integers, Sequences, FiniteSets, TLC

VARIABLES
    fs,                 \* canonical path -> node; the filesystem
    docs,               \* markdown path -> [readable, refs]; text of each document
    directory,          \* cli.directory, a path string
    action,             \* Cli::action(): [kind, dir]
    pc,                 \* position of the run
    all_images,         \* scan_for_orphans: set of canonical image paths
    referenced_images,  \* scan_for_orphans: union of the documents' reference sets
    orphaned_images,    \* the orphan sequence returned by scan_for_orphans
    last_orphaned,      \* the orphan sequence of the previous call of scan_for_orphans
    runs,               \* number of calls of scan_for_orphans so far
    log,                \* one record per captured reference of the last scan
    idx,                \* execute_action: number of orphans processed so far
    moved,              \* execute_action: <<orphan, final_target>> of every rename done
    trash,              \* contents of the system recycle bin
    out,                \* lines printed on stdout
    err                 \* the error the run ended with ("" for none)

vars == <<fs, docs, directory, action, pc, all_images, referenced_images,
          orphaned_images, last_orphaned, runs, log, idx, moved, trash, out, err>>

-----------------------------------------------------------------------------
(* Bounds *)

\* symbolic links followed by one canonicalization before it gives up
MaxLinks == 2
\* calls of the library function scan_for_orphans on one tree
MaxRuns == 2

-----------------------------------------------------------------------------
(* Strings *)

Range(s) == { s[i] : i \in 1..Len(s) }

None == [ok |-> FALSE, path |-> <<>>]
Some(p) == [ok |-> TRUE, path |-> p]

\* str::starts_with
StartsWithStr(s, prefix) ==
    /\ Len(prefix) <= Len(s)
    /\ SubSeq(s, 1, Len(prefix)) = prefix

\* index of the first occurrence of character c in s, 0 when there is none
IndexOf(s, c) ==
    IF \E i \in 1..Len(s) : s[i] = c
    THEN CHOOSE i \in 1..Len(s) : s[i] = c /\ \A j \in 1..(i - 1) : s[j] # c
    ELSE 0

\* index of the last occurrence of character c in s, 0 when there is none
LastIndexOf(s, c) ==
    IF \E i \in 1..Len(s) : s[i] = c
    THEN CHOOSE i \in 1..Len(s) : s[i] = c /\ \A j \in (i + 1)..Len(s) : s[j] # c
    ELSE 0

\* s.split(c).next(): the text before the first c, all of s when there is none
SplitNext(s, c) ==
    IF IndexOf(s, c) = 0 THEN s ELSE SubSeq(s, 1, IndexOf(s, c) - 1)

\* s.split(c) as a sequence of pieces
RECURSIVE Split(_, _)
Split(s, c) ==
    IF IndexOf(s, c) = 0 THEN <<s>>
    ELSE <<SubSeq(s, 1, IndexOf(s, c) - 1)>> \o Split(SubSeq(s, IndexOf(s, c) + 1, Len(s)), c)

IsSpace(c) == c \in {" ", "\t", "\n", "\r"}

\* str::trim
RECURSIVE Trim(_)
Trim(s) ==
    IF s = <<>> THEN s
    ELSE IF IsSpace(Head(s)) THEN Trim(Tail(s))
    ELSE IF IsSpace(s[Len(s)]) THEN Trim(SubSeq(s, 1, Len(s) - 1))
    ELSE s

UpperLetters == <<"A","B","C","D","E","F","G","H","I","J","K","L","M",
                  "N","O","P","Q","R","S","T","U","V","W","X","Y","Z">>
LowerLetters == <<"a","b","c","d","e","f","g","h","i","j","k","l","m",
                  "n","o","p","q","r","s","t","u","v","w","x","y","z">>

LowerChar(c) ==
    IF \E i \in 1..26 : UpperLetters[i] = c
    THEN LowerLetters[CHOOSE i \in 1..26 : UpperLetters[i] = c]
    ELSE c

\* str::to_lowercase
ToLower(s) == [i \in 1..Len(s) |-> LowerChar(s[i])]

\* the decimal form of a natural number, as format!("{}", n) writes it
DigitChars == <<"0","1","2","3","4","5","6","7","8","9">>
RECURSIVE Decimal(_)
Decimal(n) ==
    IF n < 10 THEN <<DigitChars[n + 1]>>
    ELSE Decimal(n \div 10) \o <<DigitChars[(n % 10) + 1]>>

-----------------------------------------------------------------------------
(* Percent decoding *)

HexDigits == <<"0","1","2","3","4","5","6","7","8","9","a","b","c","d","e","f">>

IsHex(c) == \E i \in 1..16 : HexDigits[i] = LowerChar(c)
HexVal(c) == (CHOOSE i \in 1..16 : HexDigits[i] = LowerChar(c)) - 1

\* the printable ASCII characters, bytes 32..126 in order (byte 96 by name)
Printable == <<" ","!","\"","#","$","%","&","'","(",")","*","+",",","-",".","/",
               "0","1","2","3","4","5","6","7","8","9",":",";","<","=",">","?",
               "@","A","B","C","D","E","F","G","H","I","J","K","L","M","N","O",
               "P","Q","R","S","T","U","V","W","X","Y","Z","[","\\","]","^","_",
               "<backtick>","a","b","c","d","e","f","g","h","i","j","k","l","m","n","o",
               "p","q","r","s","t","u","v","w","x","y","z","{","|","}","~">>

\* a byte that is no printable ASCII character: a control character, or a
\* byte of 128 and more (which alone is not valid UTF-8)
ControlByte == "<ctl>"
HighByte == "<hi>"

ByteChar(b) ==
    IF b >= 32 /\ b <= 126 THEN Printable[b - 31]
    ELSE IF b < 128 THEN ControlByte
    ELSE HighByte

\* percent_decode_str: %XX with two hex digits becomes the byte, all else is kept
RECURSIVE PercentDecode(_)
PercentDecode(s) ==
    IF s = <<>> THEN <<>>
    ELSE IF Head(s) = "%" /\ Len(s) >= 3 /\ IsHex(s[2]) /\ IsHex(s[3])
         THEN <<ByteChar(16 * HexVal(s[2]) + HexVal(s[3]))>>
              \o PercentDecode(SubSeq(s, 4, Len(s)))
         ELSE <<Head(s)>> \o PercentDecode(Tail(s))

\* decode_utf8().unwrap_or_else(|_| img_path.to_string())
DecodedPath(img_path) ==
    IF HighByte \in Range(PercentDecode(img_path)) THEN img_path
    ELSE PercentDecode(img_path)

\* CleanPath that forgets the query string
CleanPathFragmentOnly(s) == SplitNext(s, "#")

\* .split('#').next().and_then(|s| s.split('?').next())
CleanPath(s) == SplitNext(SplitNext(s, "#"), "?")

-----------------------------------------------------------------------------
(* Paths *)

\* Path::is_absolute
IsAbsolute(p) == p # <<>> /\ p[1] = "/"

\* Path::join: an absolute argument replaces the base
Join(base, p) ==
    IF IsAbsolute(p) THEN p
    ELSE IF base # <<>> /\ base[Len(base)] = "/" THEN base \o p
    ELSE base \o <<"/">> \o p

\* the text of a canonical path
RECURSIVE PathString(_)
PathString(cp) ==
    IF cp = <<>> THEN <<"/">>
    ELSE IF Len(cp) = 1 THEN <<"/">> \o cp[1]
    ELSE PathString(SubSeq(cp, 1, Len(cp) - 1)) \o <<"/">> \o cp[Len(cp)]

Parent(cp) == IF cp = <<>> THEN cp ELSE SubSeq(cp, 1, Len(cp) - 1)

\* Path::starts_with, on canonical paths: a prefix of whole components
StartsWith(cp, base) ==
    /\ Len(base) <= Len(cp)
    /\ SubSeq(cp, 1, Len(base)) = base

\* Path::file_name of a canonical path
FileName(cp) == cp[Len(cp)]

\* Path::extension of a file name: the text after the last dot, none when the
\* name has no dot or only a leading one
Extension(name) ==
    IF LastIndexOf(name, ".") <= 1 THEN None
    ELSE Some(SubSeq(name, LastIndexOf(name, ".") + 1, Len(name)))

\* Path::file_stem of a file name
FileStem(name) ==
    IF LastIndexOf(name, ".") <= 1 THEN name
    ELSE SubSeq(name, 1, LastIndexOf(name, ".") - 1)

\* realpath: walk the components of an absolute path string from the root,
\* following symbolic links; fails on a missing component, on a component
\* below something that is no directory, and on too many links
RECURSIVE Walk(_, _, _, _)
Walk(fsys, cur, comps, budget) ==
    IF comps = <<>> THEN Some(cur)
    ELSE IF fsys[cur].kind # "dir" THEN None
    ELSE IF Head(comps) = <<>> \/ Head(comps) = <<".">>
         THEN Walk(fsys, cur, Tail(comps), budget)
    ELSE IF Head(comps) = <<".", ".">>
         THEN Walk(fsys, Parent(cur), Tail(comps), budget)
    ELSE IF Append(cur, Head(comps)) \notin DOMAIN fsys THEN None
    ELSE IF fsys[Append(cur, Head(comps))].kind = "link"
         THEN IF budget = 0 THEN None
              ELSE Walk(fsys,
                        IF IsAbsolute(fsys[Append(cur, Head(comps))].target)
                        THEN <<>> ELSE cur,
                        Split(fsys[Append(cur, Head(comps))].target, "/") \o Tail(comps),
                        budget - 1)
    ELSE Walk(fsys, Append(cur, Head(comps)), Tail(comps), budget)

\* Path::canonicalize of an absolute path string
Canonicalize(fsys, p) ==
    IF ControlByte \in Range(p) THEN None
    ELSE Walk(fsys, <<>>, Split(p, "/"), MaxLinks)

-----------------------------------------------------------------------------
(* Path Resolver: parser.rs *)

S_http == <<"h","t","t","p",":","/","/">>
S_https == <<"h","t","t","p","s",":","/","/">>
S_slashes == <<"/","/">>
S_data == <<"d","a","t","a",":">>

\* is_url that knows the two http schemes only
is_url_schemes_only(path) ==
    \/ StartsWithStr(path, S_http)
    \/ StartsWithStr(path, S_https)

is_url(path) ==
    \/ StartsWithStr(path, S_http)
    \/ StartsWithStr(path, S_https)
    \/ StartsWithStr(path, S_slashes)
    \/ StartsWithStr(path, S_data)

\* Candidates with the scan root tried before the markdown directory
CandidatesRootFirst(img_path, markdown_dir, base_dir) ==
    <<Join(base_dir, img_path), Join(markdown_dir, img_path)>>
    \o (IF IsAbsolute(img_path) THEN <<img_path>> ELSE <<>>)

\* the candidates of try_resolve_path in the order it builds them
Candidates(img_path, markdown_dir, base_dir) ==
    <<Join(markdown_dir, img_path), Join(base_dir, img_path)>>
    \o (IF IsAbsolute(img_path) THEN <<img_path>> ELSE <<>>)

\* InScope without the starts_with test
InScopeUnchecked(fsys, canonical, base_dir) == Canonicalize(fsys, base_dir).ok

\* canonical.starts_with(base_dir.canonicalize().ok()?)
InScope(fsys, canonical, base_dir) ==
    StartsWith(canonical, Canonicalize(fsys, base_dir).path)

\* the chain of `if let Ok(canonical) = ... && canonical.starts_with(...)`:
\* tried collects the candidates handed to canonicalize
RECURSIVE TryCandidates(_, _, _, _)
TryCandidates(fsys, cands, base_dir, tried) ==
    IF cands = <<>> THEN [result |-> None, tried |-> tried]
    ELSE IF ~Canonicalize(fsys, Head(cands)).ok
         THEN TryCandidates(fsys, Tail(cands), base_dir, Append(tried, Head(cands)))
    ELSE IF ~Canonicalize(fsys, base_dir).ok
         THEN [result |-> None, tried |-> Append(tried, Head(cands))]
    ELSE IF InScope(fsys, Canonicalize(fsys, Head(cands)).path, base_dir)
         THEN [result |-> Canonicalize(fsys, Head(cands)),
               tried |-> Append(tried, Head(cands))]
    ELSE TryCandidates(fsys, Tail(cands), base_dir, Append(tried, Head(cands)))

try_resolve_path(fsys, img_path, markdown_dir, base_dir) ==
    TryCandidates(fsys, Candidates(img_path, markdown_dir, base_dir), base_dir, <<>>)

\* NeedsFallback of a resolver that has no second attempt
NeedsFallbackNever(clean_path, img_path) == FALSE

\* the condition of the fallback attempt: `if clean_path != img_path`
NeedsFallback(clean_path, img_path) == clean_path # img_path

\* resolve_image_path with the attempts swapped: the original string first
resolve_image_path_raw_first(fsys, img_path, markdown_dir, base_dir) ==
    LET clean_path == CleanPath(DecodedPath(img_path))
        clean_original == CleanPath(img_path)
        first == try_resolve_path(fsys, clean_original, markdown_dir, base_dir)
        second == try_resolve_path(fsys, clean_path, markdown_dir, base_dir)
    IN  IF first.result.ok
        THEN [result |-> first.result, tried |-> first.tried, fallback |-> FALSE]
        ELSE IF NeedsFallback(clean_path, img_path)
        THEN [result |-> second.result, tried |-> first.tried \o second.tried,
              fallback |-> TRUE]
        ELSE [result |-> None, tried |-> first.tried, fallback |-> FALSE]

\* result: the Option returned; tried: every candidate canonicalized, in order;
\* fallback: whether the attempt on the original string ran
resolve_image_path(fsys, img_path, markdown_dir, base_dir) ==
    LET clean_path == CleanPath(DecodedPath(img_path))
        first == try_resolve_path(fsys, clean_path, markdown_dir, base_dir)
        clean_original == CleanPath(img_path)
        second == try_resolve_path(fsys, clean_original, markdown_dir, base_dir)
    IN  IF first.result.ok
        THEN [result |-> first.result, tried |-> first.tried, fallback |-> FALSE]
        ELSE IF NeedsFallback(clean_path, img_path)
        THEN [result |-> second.result, tried |-> first.tried \o second.tried,
              fallback |-> TRUE]
        ELSE [result |-> None, tried |-> first.tried, fallback |-> FALSE]

-----------------------------------------------------------------------------
(* Reference Extractor: parser.rs *)

\* One captured target (group 1 of a match of img_pattern or html_pattern) of
\* the document at markdown_path: trimmed, skipped when URL-like, else resolved.
ProcessCapture(fsys, markdown_path, i, target, base_dir) ==
    LET img_path == Trim(target)
        r == resolve_image_path(fsys, img_path, PathString(Parent(markdown_path)), base_dir)
    IN  IF is_url(img_path)
        THEN [doc |-> markdown_path, i |-> i, img_path |-> img_path, url |-> TRUE,
              result |-> None, tried |-> <<>>, fallback |-> FALSE]
        ELSE [doc |-> markdown_path, i |-> i, img_path |-> img_path, url |-> FALSE,
              result |-> r.result, tried |-> r.tried, fallback |-> r.fallback]

\* ok: whether fs::read_to_string succeeded; references: the HashSet returned;
\* entries: one record per captured target
extract_image_references(fsys, documents, markdown_path, base_dir) ==
    LET content == documents[markdown_path]
        entries == { ProcessCapture(fsys, markdown_path, i, content.refs[i], base_dir)
                     : i \in 1..Len(content.refs) }
    IN  IF ~content.readable
        THEN [ok |-> FALSE, references |-> {}, entries |-> {}]
        ELSE [ok |-> TRUE,
              references |-> { e.result.path : e \in { x \in entries : x.result.ok } },
              entries |-> entries]

-----------------------------------------------------------------------------
(* Tree Scanner: scanner.rs *)

\* default_value of --extensions
S_extensions == <<"j","p","g",",","j","p","e","g",",","p","n","g",",","g","i","f",",",
                  "b","m","p",",","s","v","g",",","w","e","b","p">>
S_md == <<"m","d">>
S_markdown == <<"m","a","r","k","d","o","w","n">>

image_extensions(extensions) ==
    { ToLower(Trim(Split(extensions, ",")[i])) : i \in 1..Len(Split(extensions, ",")) }

\* WalkDir::new(directory).follow_links(false), entries that are regular
\* files: a symbolic link is not followed and is no regular file
walk_files(fsys, dir) ==
    IF ~Canonicalize(fsys, dir).ok THEN {}
    ELSE { p \in DOMAIN fsys :
             /\ StartsWith(p, Canonicalize(fsys, dir).path)
             /\ fsys[p].kind = "file" }

IsImage(p, exts) ==
    /\ Extension(FileName(p)).ok
    /\ ToLower(Extension(FileName(p)).path) \in exts

IsMarkdown(p) ==
    /\ Extension(FileName(p)).ok
    /\ ToLower(Extension(FileName(p)).path) \in {S_md, S_markdown}

AllImages(fsys, dir, extensions) ==
    { Canonicalize(fsys, PathString(p)).path :
        p \in { q \in walk_files(fsys, dir) :
                  /\ IsImage(q, image_extensions(extensions))
                  /\ Canonicalize(fsys, PathString(q)).ok } }

\* the documents whose extraction returned Ok
Extracted(fsys, documents, dir) ==
    { extract_image_references(fsys, documents, p, dir) :
        p \in { q \in walk_files(fsys, dir) : IsMarkdown(q) } }

\* ReferencedImages of a scan that gives up on the first failed extraction
ReferencedImagesAllOrNothing(fsys, documents, dir) ==
    IF \E y \in Extracted(fsys, documents, dir) : ~y.ok THEN {}
    ELSE UNION { x.references : x \in Extracted(fsys, documents, dir) }

ReferencedImages(fsys, documents, dir) ==
    UNION { x.references : x \in { y \in Extracted(fsys, documents, dir) : y.ok } }

ScanLog(fsys, documents, dir) ==
    UNION { x.entries : x \in Extracted(fsys, documents, dir) }

\* Difference that returns every image
DifferenceAll(images, referenced) == images

\* all_images.difference(&referenced_images)
Difference(images, referenced) == images \ referenced

\* every order in which a HashSet with a per-process random hasher can hand
\* out its elements
Orders(S) ==
    { s \in [1..Cardinality(S) -> S] : \A i, j \in 1..Cardinality(S) : s[i] = s[j] => i = j }

\* .cloned().collect(): the Vec takes the iteration order of the HashSet
CollectOrders(S) == Orders(S)

-----------------------------------------------------------------------------
(* The trees and documents the runs start from *)

Dir == [kind |-> "dir"]
File(p) == [kind |-> "file", id |-> p]
Link(t) == [kind |-> "link", target |-> t]

N_r == <<"r">>
N_d == <<"d">>
N_o == <<"o">>
N_t == <<"t">>
N_a == <<"a",".","p","n","g">>
N_a1 == <<"a","_","1",".","p","n","g">>
N_a2 == <<"a","_","2",".","p","n","g">>
N_mp == <<"m"," ","p",".","p","n","g">>
N_me == <<"m","%","2","0","p",".","p","n","g">>
N_n == <<"n",".","m","d">>
N_m == <<"m",".","M","D">>

P_root == <<>>
P_r == <<N_r>>
P_d == <<N_r, N_d>>
P_o == <<N_o>>
P_t == <<N_t>>
P_o_a == <<N_o, N_a>>
P_r_a == <<N_r, N_a>>
P_d_a == <<N_r, N_d, N_a>>
P_d_mp == <<N_r, N_d, N_mp>>
P_d_me == <<N_r, N_d, N_me>>
P_d_n == <<N_r, N_d, N_n>>
P_r_m == <<N_r, N_m>>

\* the part of every tree: /, the scan root /r with /r/d below it, /o outside
\* the scan root with the file /o/a.png, and the documents /r/d/n.md, /r/m.MD
Skeleton ==
    (P_root :> Dir) @@ (P_r :> Dir) @@ (P_d :> Dir) @@ (P_o :> Dir)
    @@ (P_o_a :> File(P_o_a)) @@ (P_d_n :> File(P_d_n)) @@ (P_r_m :> File(P_r_m))

Opt(present, p, node) == IF present THEN (p :> node) ELSE [q \in {} |-> Dir]

\* what may sit at /r/d/a.png: nothing, a regular file, a link to the file
\* outside the scan root, a relative link to /r/a.png
DaKinds == {"none", "file", "out", "in"}
DaNode(k) ==
    IF k = "file" THEN File(P_d_a)
    ELSE IF k = "out" THEN Link(PathString(P_o_a))
    ELSE Link(<<".", ".", "/">> \o N_a)

Tree(ra, da, mp, me) ==
    Skeleton @@ Opt(ra, P_r_a, File(P_r_a)) @@ Opt(da # "none", P_d_a, DaNode(da))
    @@ Opt(mp, P_d_mp, File(P_d_mp)) @@ Opt(me, P_d_me, File(P_d_me))

\* captured targets of /r/d/n.md
RawRefs == {
    N_a,
    <<" ">> \o N_a \o <<" ">>,
    <<".", ".", "/">> \o N_a,
    <<".", ".", "/", ".", ".", "/", "o", "/">> \o N_a,
    <<"/", "o", "/">> \o N_a,
    <<"/", "r", "/">> \o N_a,
    <<"/", "/", "r", "/">> \o N_a,
    S_http \o N_a,
    S_https \o N_a,
    S_data \o N_a,
    N_me,
    N_mp,
    N_a \o <<"?", "v", "=", "2", "#", "f">>,
    N_a \o <<"#", "f", "?", "v", "=", "2">>,
    N_a \o <<"%", "2", "3", "f">>,
    N_a \o <<"%", "3", "F", "v">>,
    <<"%", "F", "F">> \o N_a
}

\* captured targets of /r/m.MD
RootRefs == { <<"d", "/">> \o N_a, N_a }

Unreadable == [readable |-> FALSE, refs |-> <<>>]
Text(refs) == [readable |-> TRUE, refs |-> refs]

\* a file that is no UTF-8 text although image syntax stands in its bytes
Garbled(refs) == [readable |-> FALSE, refs |-> refs]

Contents(S) == {Unreadable, Garbled(<<N_a>>), Text(<<>>)} \cup { Text(<<x>>) : x \in S }

S_root == <<"/", "r">>

NoAction == [kind |-> "none", dir |-> <<>>]

\* the state before a call of scan_for_orphans on a tree whose documents
\* /r/d/n.md and /r/m.MD have their contents from CN and CM
InitTrees(CN, CM) ==
    /\ \E ra \in BOOLEAN, da \in DaKinds, mp \in BOOLEAN, me \in BOOLEAN :
          fs = Tree(ra, da, mp, me)
    /\ \E cn \in CN, cm \in CM :
          docs = (P_d_n :> cn) @@ (P_r_m :> cm)
    /\ directory = S_root
    /\ action = NoAction
    /\ pc = "call"
    /\ all_images = {}
    /\ referenced_images = {}
    /\ orphaned_images = <<>>
    /\ last_orphaned = <<>>
    /\ runs = 0
    /\ log = {}
    /\ idx = 0
    /\ moved = <<>>
    /\ trash = {}
    /\ out = <<>>
    /\ err = ""

InitScan == InitTrees(Contents(RawRefs), Contents(RootRefs))

InitRescan == InitTrees(Contents({N_a, N_mp}), {Text(<<>>)})

-----------------------------------------------------------------------------
(* scan_for_orphans *)

ScanBody ==
    /\ all_images' = AllImages(fs, directory, S_extensions)
    /\ referenced_images' = ReferencedImages(fs, docs, directory)
    /\ log' = ScanLog(fs, docs, directory)
    /\ orphaned_images' \in
          CollectOrders(Difference(AllImages(fs, directory, S_extensions),
                                   ReferencedImages(fs, docs, directory)))
    /\ last_orphaned' = orphaned_images
    /\ runs' = runs + 1

\* one call of the library function scan_for_orphans
ScanOnce ==
    /\ pc = "call"
    /\ runs = 0
    /\ ScanBody
    /\ pc' = "returned"
    /\ UNCHANGED <<fs, docs, directory, action, idx, moved, trash, out, err>>

NextScan == ScanOnce

SpecScan == InitScan /\ [][NextScan]_vars

\* the library function called again on the tree it left unchanged
ScanCall ==
    /\ pc \in {"call", "returned"}
    /\ runs < MaxRuns
    /\ ScanBody
    /\ pc' = "returned"
    /\ UNCHANGED <<fs, docs, directory, action, idx, moved, trash, out, err>>

NextRescan == ScanCall

SpecRescan == InitRescan /\ [][NextRescan]_vars

-----------------------------------------------------------------------------
(* utils.rs, actions.rs *)

\* str::replace('\\', "/")
ReplaceBackslash(s) == [i \in 1..Len(s) |-> IF s[i] = "\\" THEN "/" ELSE s[i]]

\* the components of a canonical path after a prefix, joined by /
RECURSIVE RelativeString(_)
RelativeString(cp) ==
    IF cp = <<>> THEN <<>>
    ELSE IF Len(cp) = 1 THEN cp[1]
    ELSE cp[1] \o <<"/">> \o RelativeString(Tail(cp))

display_relative_path(path, base_dir) ==
    IF StartsWith(path, base_dir)
    THEN ReplaceBackslash(RelativeString(SubSeq(path, Len(base_dir) + 1, Len(path))))
    ELSE ReplaceBackslash(PathString(path))

\* Path::parent and Path::file_name of a path string
ParentStr(p) ==
    IF LastIndexOf(p, "/") = 1 THEN <<"/">> ELSE SubSeq(p, 1, LastIndexOf(p, "/") - 1)
NameStr(p) == SubSeq(p, LastIndexOf(p, "/") + 1, Len(p))

\* Path::exists: the path canonicalizes (symbolic links are followed)
Exists(fsys, p) == Canonicalize(fsys, p).ok

\* format!("{}_{}.{}", stem, counter, ext), format!("{}_{}", stem, counter)
NewName(name, counter) ==
    IF ~Extension(name).ok \/ Extension(name).path = <<>>
    THEN FileStem(name) \o <<"_">> \o Decimal(counter)
    ELSE FileStem(name) \o <<"_">> \o Decimal(counter) \o <<".">> \o Extension(name).path

\* the loop of generate_unique_filename from a value of counter on
RECURSIVE UniqueFrom(_, _, _)
UniqueFrom(fsys, path, counter) ==
    IF ~Exists(fsys, Join(ParentStr(path), NewName(NameStr(path), counter)))
    THEN Join(ParentStr(path), NewName(NameStr(path), counter))
    ELSE UniqueFrom(fsys, path, counter + 1)

\* generate_unique_filename with the counter started at 0
generate_unique_filename_from_0(fsys, path) == UniqueFrom(fsys, path, 0)

generate_unique_filename(fsys, path) == UniqueFrom(fsys, path, 1)

\* let final_target = if target.exists() { generate_unique_filename(&target) } else { target }
FinalTarget(fsys, move_to_dir, img) ==
    IF Exists(fsys, Join(move_to_dir, FileName(img)))
    THEN generate_unique_filename(fsys, Join(move_to_dir, FileName(img)))
    ELSE Join(move_to_dir, FileName(img))

\* the canonical place a path string names: its parent canonicalized, then its name
Place(fsys, p) == Append(Canonicalize(fsys, ParentStr(p)).path, NameStr(p))

Without(fsys, p) == [q \in DOMAIN fsys \ {p} |-> fsys[q]]

\* fs::remove_file, trash::delete: the file leaves the tree
Removed(fsys, p) == Without(fsys, p)

\* fs::rename: the file takes the new place, replacing what was there
Renamed(fsys, from, to) == (to :> fsys[from]) @@ Without(fsys, from)

\* the entries of a directory
Entries(fsys, dir) == { q \in DOMAIN fsys : Len(q) = Len(dir) + 1 /\ StartsWith(q, dir) }

\* a failed operation that is skipped: the loop goes on with the next file
SkipFailure(e) ==
    /\ err' = err
    /\ pc' = "loop"
    /\ idx' = idx + 1

\* `?` on a failed operation: the error is returned, the loop is left
Propagate(e) ==
    /\ err' = e
    /\ pc' = "done"
    /\ idx' = idx

-----------------------------------------------------------------------------
(* main.rs: one run of the program *)

S_t == <<"/", "t">>
S_d == <<"/", "r", "/", "d">>
S_missing == <<"/", "x">>
S_file == <<"/", "r", "/", "d", "/", "n", ".", "m", "d">>

P_t_a == <<N_t, N_a>>
P_t_a1 == <<N_t, N_a1>>

\* Cli::action()
Delete == [kind |-> "delete", dir |-> <<>>]
Recycle == [kind |-> "recycle", dir |-> <<>>]
Move(dir) == [kind |-> "move", dir |-> dir]

\* what the move destination /t holds before the run
DestKinds == {"none", "empty", "a", "a_a1"}
Dest(k) ==
    Opt(k # "none", P_t, Dir) @@ Opt(k \in {"a", "a_a1"}, P_t_a, File(P_t_a))
    @@ Opt(k = "a_a1", P_t_a1, File(P_t_a1))

Init ==
    /\ \E ra \in BOOLEAN, da \in {"none", "file"}, mp \in BOOLEAN, t \in DestKinds :
          fs = Tree(ra, da, mp, FALSE) @@ Dest(t)
    /\ \E cn \in {Text(<<>>), Text(<<N_a>>)} :
          docs = (P_d_n :> cn) @@ (P_r_m :> Text(<<>>))
    /\ directory \in {S_root, S_missing, S_file}
    /\ action \in {Delete, Recycle, Move(S_t), Move(S_d)}
    /\ pc = "start"
    /\ all_images = {}
    /\ referenced_images = {}
    /\ orphaned_images = <<>>
    /\ last_orphaned = <<>>
    /\ runs = 0
    /\ log = {}
    /\ idx = 0
    /\ moved = <<>>
    /\ trash = {}
    /\ out = <<>>
    /\ err = ""

\* Path::is_dir
IsDir(fsys, p) == Canonicalize(fsys, p).ok /\ fsys[Canonicalize(fsys, p).path].kind = "dir"

\* Validate without the is_dir test
ValidateExistsOnly ==
    /\ pc = "start"
    /\ IF ~Exists(fs, directory)
       THEN err' = "Directory does not exist" /\ pc' = "done"
       ELSE \E canonical \in BOOLEAN :
               IF canonical
               THEN err' = err /\ pc' = "scan"
               ELSE err' = "Failed to canonicalize directory" /\ pc' = "done"
    /\ UNCHANGED <<fs, docs, directory, action, all_images, referenced_images,
                   orphaned_images, last_orphaned, runs, log, idx, moved, trash, out>>

\* main: the checks of the target directory, then its canonicalization,
\* which the system may refuse
Validate ==
    /\ pc = "start"
    /\ IF ~Exists(fs, directory)
       THEN err' = "Directory does not exist" /\ pc' = "done"
       ELSE IF ~IsDir(fs, directory)
       THEN err' = "Path is not a directory" /\ pc' = "done"
       ELSE \E canonical \in BOOLEAN :
               IF canonical
               THEN err' = err /\ pc' = "scan"
               ELSE err' = "Failed to canonicalize directory" /\ pc' = "done"
    /\ UNCHANGED <<fs, docs, directory, action, all_images, referenced_images,
                   orphaned_images, last_orphaned, runs, log, idx, moved, trash, out>>

\* main: scan_for_orphans, and the early return on an empty result
Scan ==
    /\ pc = "scan"
    /\ ScanBody
    /\ pc' = IF orphaned_images' = <<>> THEN "done" ELSE "print"
    /\ UNCHANGED <<fs, docs, directory, action, idx, moved, trash, out, err>>

OrphanLine(img) ==
    [line |-> "orphan", n |-> 0,
     text |-> NameStr(directory) \o <<"/">>
              \o display_relative_path(img, Canonicalize(fs, directory).path)]

CountLine(verb) == [line |-> verb, n |-> Len(orphaned_images), text |-> <<>>]

\* main: the list of orphans is printed in the order of the sequence
PrintList ==
    /\ pc = "print"
    /\ out' = out \o [i \in 1..Len(orphaned_images) |-> OrphanLine(orphaned_images[i])]
    /\ pc' = "act"
    /\ UNCHANGED <<fs, docs, directory, action, all_images, referenced_images,
                   orphaned_images, last_orphaned, runs, log, idx, moved, trash, err>>

NeedsDir == action.kind = "move" /\ ~Exists(fs, action.dir)

\* execute_action, Action::Move: fs::create_dir_all on a missing destination
CreateDir ==
    /\ pc = "act"
    /\ NeedsDir
    /\ \E ok \in BOOLEAN :
          IF ok
          THEN /\ fs' = (Place(fs, action.dir) :> Dir) @@ fs
               /\ pc' = "loop"
               /\ UNCHANGED <<err, idx>>
          ELSE /\ Propagate("CreateDirectory")
               /\ fs' = fs
    /\ UNCHANGED <<docs, directory, action, all_images, referenced_images,
                   orphaned_images, last_orphaned, runs, log, moved, trash, out>>

InLoop == pc = "loop" \/ (pc = "act" /\ ~NeedsDir)

\* execute_action, Action::Delete: one turn of the loop
DeleteStep ==
    /\ InLoop
    /\ action.kind = "delete"
    /\ idx < Len(orphaned_images)
    /\ \E ok \in BOOLEAN :
          IF ok
          THEN /\ fs' = Removed(fs, orphaned_images[idx + 1])
               /\ idx' = idx + 1
               /\ pc' = "loop"
               /\ err' = err
          ELSE /\ Propagate("DeleteFile")
               /\ fs' = fs
    /\ UNCHANGED <<docs, directory, action, all_images, referenced_images,
                   orphaned_images, last_orphaned, runs, log, moved, trash, out>>

\* execute_action, Action::Recycle: one turn of the loop
RecycleStep ==
    /\ InLoop
    /\ action.kind = "recycle"
    /\ idx < Len(orphaned_images)
    /\ \E ok \in BOOLEAN :
          IF ok
          THEN /\ fs' = Removed(fs, orphaned_images[idx + 1])
               /\ trash' = trash \cup {fs[orphaned_images[idx + 1]].id}
               /\ idx' = idx + 1
               /\ pc' = "loop"
               /\ err' = err
          ELSE /\ Propagate("RecycleFile")
               /\ fs' = fs
               /\ trash' = trash
    /\ UNCHANGED <<docs, directory, action, all_images, referenced_images,
                   orphaned_images, last_orphaned, runs, log, moved, out>>

\* execute_action, Action::Move: one turn of the loop; taken is what the
\* destination held when the turn began
MoveStep ==
    /\ InLoop
    /\ action.kind = "move"
    /\ idx < Len(orphaned_images)
    /\ \E ok \in BOOLEAN :
          IF ok
          THEN /\ fs' = Renamed(fs, orphaned_images[idx + 1],
                                Place(fs, FinalTarget(fs, action.dir, orphaned_images[idx + 1])))
               /\ moved' = Append(moved,
                     [from |-> orphaned_images[idx + 1],
                      to |-> Place(fs, FinalTarget(fs, action.dir, orphaned_images[idx + 1])),
                      taken |-> [q \in Entries(fs, Canonicalize(fs, action.dir).path) |-> fs[q]]])
               /\ idx' = idx + 1
               /\ pc' = "loop"
               /\ err' = err
          ELSE /\ Propagate("MoveFile")
               /\ fs' = fs
               /\ moved' = moved
    /\ UNCHANGED <<docs, directory, action, all_images, referenced_images,
                   orphaned_images, last_orphaned, runs, log, trash, out>>

Verb == IF action.kind = "delete" THEN "Deleted"
        ELSE IF action.kind = "recycle" THEN "Recycled" ELSE "Moved"

\* execute_action: the count line after the loop, then Ok(())
Finish ==
    /\ InLoop
    /\ idx = Len(orphaned_images)
    /\ out' = Append(out, CountLine(Verb))
    /\ pc' = "done"
    /\ UNCHANGED <<fs, docs, directory, action, all_images, referenced_images,
                   orphaned_images, last_orphaned, runs, log, idx, moved, trash, err>>

Next ==
    \/ Validate
    \/ Scan
    \/ PrintList
    \/ CreateDir
    \/ DeleteStep
    \/ RecycleStep
    \/ MoveStep
    \/ Finish

Spec == Init /\ [][Next]_vars

-----------------------------------------------------------------------------
(* Properties of the scan: SpecScan *)

\* the canonical scan root of every tree above
ScanRoot == P_r
UnderRoot(p) == StartsWith(p, ScanRoot)
Orphans == Range(orphaned_images)
IsFile(p) == p \in DOMAIN fs /\ fs[p].kind = "file"

S_png == <<".", "p", "n", "g">>
HasPngExtension(p) ==
    /\ Len(FileName(p)) > 4
    /\ SubSeq(FileName(p), Len(FileName(p)) - 3, Len(FileName(p))) = S_png

\* some readable document holds a reference that resolved to p
ResolvesTo(p) ==
    \E e \in log : docs[e.doc].readable /\ e.result.ok /\ e.result.path = p

\* C1: the result of scan_for_orphans has no duplicates, holds only regular
\* image files under the scan root, and a regular image file under the scan
\* root is in it if and only if no reference of a readable document resolves
\* to it.
C1_OrphansAreImagesMinusReferenced ==
    pc = "returned" =>
        /\ Cardinality(Orphans) = Len(orphaned_images)
        /\ \A p \in Orphans : IsFile(p) /\ UnderRoot(p) /\ HasPngExtension(p)
        /\ \A p \in DOMAIN fs :
              (IsFile(p) /\ UnderRoot(p) /\ HasPngExtension(p))
                  => (p \in Orphans <=> ~ResolvesTo(p))

C1_Witness ==
    /\ pc = "returned"
    /\ \E p, q \in DOMAIN fs :
          /\ IsFile(p) /\ UnderRoot(p) /\ HasPngExtension(p)
          /\ IsFile(q) /\ UnderRoot(q) /\ HasPngExtension(q)
          /\ p \in Orphans
          /\ q \notin Orphans /\ ResolvesTo(q)

\* a candidate that canonicalizes to a place under the scan root
Accepted(c) == Canonicalize(fs, c).ok /\ UnderRoot(Canonicalize(fs, c).path)

\* C2: every resolved reference lies under the canonical scan root; a
\* reference none of whose candidates canonicalizes to a place under the scan
\* root resolves to nothing, so the referenced set holds in-scope paths only,
\* an image is kept from the orphans only by a reference resolved to it, and
\* the scan returns without an error.
C2_ResolvedPathsInScope ==
    pc = "returned" =>
        /\ \A e \in log :
              /\ e.result.ok => UnderRoot(e.result.path)
              /\ (\A i \in 1..Len(e.tried) : ~Accepted(e.tried[i])) => ~e.result.ok
        /\ \A p \in referenced_images : UnderRoot(p)
        /\ \A p \in all_images \ Orphans : ResolvesTo(p) /\ UnderRoot(p)
        /\ err = ""

C2_Witness ==
    /\ pc = "returned"
    /\ \E e \in log :
          /\ e.tried # <<>>
          /\ \A i \in 1..Len(e.tried) :
                /\ Canonicalize(fs, e.tried[i]).ok
                /\ ~UnderRoot(Canonicalize(fs, e.tried[i]).path)
          /\ ~e.result.ok
          /\ all_images # {}
          /\ Orphans = all_images

UrlPrefixes == {S_http, S_https, S_slashes, S_data}
UrlLike(s) ==
    \E pre \in UrlPrefixes :
        Len(pre) <= Len(s) /\ \A i \in 1..Len(pre) : s[i] = pre[i]

\* C3: a reference whose target starts with http://, https://, // or data:
\* is resolved to nothing without one candidate being canonicalized, and every
\* member of the referenced set comes from a reference that is not URL-like.
C3_UrlNeverResolved ==
    pc = "returned" =>
        /\ \A e \in log : UrlLike(e.img_path) => (e.tried = <<>> /\ ~e.result.ok)
        /\ \A p \in referenced_images :
              \E e \in log : ~UrlLike(e.img_path) /\ e.result = Some(p)

S_slash_r_a == <<"/", "/", "r", "/">> \o N_a

\* //r/a.png is referenced and /r/a.png exists, yet stays an orphan
C3_Witness ==
    /\ pc = "returned"
    /\ \E e \in log : e.img_path = S_slash_r_a
    /\ IsFile(P_r_a)
    /\ P_r_a \in Orphans

MdDir(e) == PathString(Parent(e.doc))

\* the prefix of s before its first # or ?
Cut(s) ==
    IF \E i \in 1..Len(s) : s[i] \in {"#", "?"}
    THEN SubSeq(s, 1, (CHOOSE i \in 1..Len(s) :
                          /\ s[i] \in {"#", "?"}
                          /\ \A j \in 1..(i - 1) : s[j] \notin {"#", "?"}) - 1)
    ELSE s

\* (a) below the markdown directory, (b) below the scan root, (c) as it is
\* when absolute
OrderedCandidates(s, dir) ==
    <<Join(dir, s), Join(S_root, s)>> \o (IF IsAbsolute(s) THEN <<s>> ELSE <<>>)

FirstAccepted(cs) ==
    IF \E i \in 1..Len(cs) : Accepted(cs[i])
    THEN CHOOSE i \in 1..Len(cs) : Accepted(cs[i]) /\ \A j \in 1..(i - 1) : ~Accepted(cs[j])
    ELSE 0

ExpectedResult(s, dir) ==
    IF FirstAccepted(OrderedCandidates(s, dir)) = 0 THEN None
    ELSE Canonicalize(fs, OrderedCandidates(s, dir)[FirstAccepted(OrderedCandidates(s, dir))])

ExpectedTried(s, dir) ==
    IF FirstAccepted(OrderedCandidates(s, dir)) = 0 THEN OrderedCandidates(s, dir)
    ELSE SubSeq(OrderedCandidates(s, dir), 1, FirstAccepted(OrderedCandidates(s, dir)))

\* C4: for a reference whose percent-decoded text differs from its raw text,
\* the result is the resolution of the decoded and cut name whenever one of
\* its candidates is accepted, and the resolution of the cut raw name only
\* when none is; m%20p.png resolves to "m p.png" when that file exists, also
\* beside a file named m%20p.png.
C4_DecodedFirst ==
    pc = "returned" =>
        \A e \in log :
            (~e.url /\ DecodedPath(e.img_path) # e.img_path) =>
                /\ IF ExpectedResult(Cut(DecodedPath(e.img_path)), MdDir(e)).ok
                   THEN /\ e.result = ExpectedResult(Cut(DecodedPath(e.img_path)), MdDir(e))
                        /\ ~e.fallback
                   ELSE /\ e.result = ExpectedResult(Cut(e.img_path), MdDir(e))
                        /\ e.fallback
                /\ (e.img_path = N_me /\ e.doc = P_d_n /\ IsFile(P_d_mp))
                      => e.result = Some(P_d_mp)

C4_Witness ==
    /\ pc = "returned"
    /\ IsFile(P_d_mp)
    /\ IsFile(P_d_me)
    /\ \E e \in log : e.img_path = N_me /\ e.result = Some(P_d_mp) /\ ~e.fallback

\* C5 as stated: the reference "m p.png" resolves to the file named
\* m%20p.png, through the fallback attempt (no file "m p.png" being there).
C5_UnencodedFindsEncoded ==
    pc = "returned" =>
        \A e \in log :
            (e.img_path = N_mp /\ e.doc = P_d_n /\ IsFile(P_d_me) /\ ~IsFile(P_d_mp))
                => (e.result = Some(P_d_me) /\ e.fallback)

P_r_mp == <<N_r, N_mp>>

\* C5, amended: the reference "m p.png" is looked up under the name "m p.png"
\* only, with no fallback attempt, so with nothing of that name at a candidate
\* place it resolves to nothing although m%20p.png exists; the fallback
\* attempt serves the reference m%20p.png, which resolves to /r/d/m%20p.png
\* when no candidate of "m p.png" is accepted.
C5_FallbackServesEncodedReference ==
    pc = "returned" =>
        \A e \in log :
            /\ e.img_path = N_mp =>
                  /\ ~e.fallback
                  /\ \A i \in 1..Len(e.tried) : NameStr(e.tried[i]) = N_mp
                  /\ (P_d_mp \notin DOMAIN fs /\ P_r_mp \notin DOMAIN fs) => ~e.result.ok
            /\ (e.img_path = N_me /\ e.doc = P_d_n /\ IsFile(P_d_me) /\ ~IsFile(P_d_mp))
                  => (e.result = Some(P_d_me) /\ e.fallback)

C5_Witness ==
    /\ pc = "returned"
    /\ IsFile(P_d_me)
    /\ ~IsFile(P_d_mp)
    /\ \E e \in log : e.img_path = N_mp /\ ~e.result.ok /\ ~e.fallback /\ e.tried # <<>>
    /\ P_d_me \in Orphans

S_query_fragment == N_a \o <<"?", "v", "=", "2", "#", "f">>
S_fragment_query == N_a \o <<"#", "f", "?", "v", "=", "2">>
S_encoded_fragment == N_a \o <<"%", "2", "3", "f">>
S_encoded_query == N_a \o <<"%", "3", "F", "v">>

\* C6: the first candidate handed to the filesystem is the percent-decoded
\* reference cut at its first # or ?, no candidate holds a # or ?, the
\* references a.png?v=2#f and a.png#f?v=2 resolve as a.png does, and so do
\* a.png%23f and a.png%3Fv whenever a.png resolves.
C6_FragmentQueryStripped ==
    pc = "returned" =>
        \A e \in log :
            ~e.url =>
                /\ e.tried # <<>>
                /\ e.tried[1] = Join(MdDir(e), Cut(DecodedPath(e.img_path)))
                /\ \A i \in 1..Len(e.tried) : Range(e.tried[i]) \cap {"#", "?"} = {}
                /\ e.img_path \in {S_query_fragment, S_fragment_query}
                      => e.result = ExpectedResult(N_a, MdDir(e))
                /\ (e.img_path \in {S_encoded_fragment, S_encoded_query}
                    /\ ExpectedResult(N_a, MdDir(e)).ok)
                      => e.result = ExpectedResult(N_a, MdDir(e))

C6_Witness ==
    /\ pc = "returned"
    /\ \E e \in log :
          /\ e.img_path = S_query_fragment
          /\ e.result.ok
          /\ FileName(e.result.path) = N_a
          /\ e.result.path \notin Orphans

\* C10: for each path string tried (the decoded one, then the raw one of a
\* fallback attempt) the candidates canonicalized are (a), (b), (c) in this
\* order up to and including the first accepted one, the result is the
\* canonical path of that one, and nothing when none is accepted.
C10_BasePrecedence ==
    pc = "returned" =>
        \A e \in log :
            ~e.url =>
                IF ~e.fallback
                THEN /\ e.tried = ExpectedTried(Cut(DecodedPath(e.img_path)), MdDir(e))
                     /\ e.result = ExpectedResult(Cut(DecodedPath(e.img_path)), MdDir(e))
                ELSE /\ e.tried = ExpectedTried(Cut(DecodedPath(e.img_path)), MdDir(e))
                                  \o ExpectedTried(Cut(e.img_path), MdDir(e))
                     /\ ~ExpectedResult(Cut(DecodedPath(e.img_path)), MdDir(e)).ok
                     /\ e.result = ExpectedResult(Cut(e.img_path), MdDir(e))

\* /r/d/a.png exists and leads outside the scan root, /r/a.png is found next
C10_Witness ==
    /\ pc = "returned"
    /\ \E e \in log :
          /\ e.img_path = N_a
          /\ Len(e.tried) = 2
          /\ Canonicalize(fs, e.tried[1]).ok
          /\ ~UnderRoot(Canonicalize(fs, e.tried[1]).path)
          /\ e.result = Some(P_r_a)

\* C11: a document that cannot be read as text contributes no reference (no
\* capture of it is resolved, and every member of the referenced set comes
\* from a readable document), the scan returns without an error, and every
\* capture of every readable document is resolved, its result, when there is
\* one, being in the referenced set and not among the orphans.
C11_UnreadableDocumentSkipped ==
    pc = "returned" =>
        /\ err = ""
        /\ \A d \in DOMAIN docs : ~docs[d].readable => \A e \in log : e.doc # d
        /\ \A p \in referenced_images : ResolvesTo(p)
        /\ \A d \in DOMAIN docs :
              docs[d].readable =>
                  \A i \in 1..Len(docs[d].refs) :
                      \E e \in log :
                          /\ e.doc = d
                          /\ e.i = i
                          /\ e.result.ok =>
                                (e.result.path \in referenced_images
                                 /\ e.result.path \notin Orphans)

\* /r/d/n.md cannot be read and would have named /r/d/a.png, which is an
\* orphan; /r/m.MD is read and keeps /r/a.png from the orphans
C11_Witness ==
    /\ pc = "returned"
    /\ ~docs[P_d_n].readable
    /\ docs[P_d_n].refs = <<N_a>>
    /\ IsFile(P_d_a)
    /\ P_d_a \in Orphans
    /\ docs[P_r_m].readable
    /\ IsFile(P_r_a)
    /\ P_r_a \in referenced_images
    /\ P_r_a \notin Orphans

-----------------------------------------------------------------------------
(* Order of the orphan sequence: SpecRescan *)

\* C7: two calls of scan_for_orphans on the same unchanged tree return the
\* orphans in the same order.
C7_SameOrderEveryRun ==
    runs >= 2 => orphaned_images = last_orphaned

-----------------------------------------------------------------------------
(* Properties of execute_action: Spec *)

PerFileErrors == {"DeleteFile", "RecycleFile", "MoveFile"}
CountPrinted == \E i \in 1..Len(out) : out[i].line \in {"Deleted", "Recycled", "Moved"}

\* the file the scan found at o is no longer there
Processed(o) == o \notin DOMAIN fs \/ fs[o] # File(o)
\* the file the scan found at o is there as it was
Untouched(o) ==
    /\ o \in DOMAIN fs
    /\ fs[o] = File(o)
    /\ o \notin trash
    /\ \A i \in 1..Len(moved) : moved[i].from # o

\* C8: when a file fails the run is over with that error, the files before it
\* in the sequence are processed, the failed file and the files after it are
\* untouched and no count line is printed; a count line is printed only with
\* no error and every file processed.
C8_HaltsOnFirstFailure ==
    /\ err \in PerFileErrors =>
          /\ pc = "done"
          /\ idx < Len(orphaned_images)
          /\ \A j \in 1..idx : Processed(orphaned_images[j])
          /\ \A j \in (idx + 1)..Len(orphaned_images) : Untouched(orphaned_images[j])
          /\ ~CountPrinted
    /\ CountPrinted =>
          /\ err = ""
          /\ pc = "done"
          /\ \A j \in 1..Len(orphaned_images) : Processed(orphaned_images[j])

C8_Witness ==
    /\ err \in PerFileErrors
    /\ idx >= 1
    /\ idx + 1 < Len(orphaned_images)
    /\ Processed(orphaned_images[idx])
    /\ Untouched(orphaned_images[idx + 2])

\* <stem>_<k>.png of a name that ends in .png
Suffixed(name, k) ==
    SubSeq(name, 1, Len(name) - 4) \o <<"_", DigitChars[k + 1]>> \o S_png

TakenNames(m) == { FileName(q) : q \in DOMAIN m.taken }

\* C9: every moved orphan went into the destination under its own name when
\* that name was free, else under <stem>_<k>.<ext> with the smallest k >= 1
\* whose name was free; it replaced nothing that was there, every file that
\* was in the destination still exists, and every moved orphan is at its own
\* place, distinct from the others'.
C9_MoveConflictRenaming ==
    \A i \in 1..Len(moved) :
        /\ Parent(moved[i].to) = Canonicalize(fs, action.dir).path
        /\ IF FileName(moved[i].from) \notin TakenNames(moved[i])
           THEN FileName(moved[i].to) = FileName(moved[i].from)
           ELSE \E k \in 1..9 :
                   /\ FileName(moved[i].to) = Suffixed(FileName(moved[i].from), k)
                   /\ \A j \in 1..(k - 1) :
                         Suffixed(FileName(moved[i].from), j) \in TakenNames(moved[i])
        /\ moved[i].to \notin DOMAIN moved[i].taken
        /\ \A q \in DOMAIN moved[i].taken :
              \E r \in DOMAIN fs : fs[r] = moved[i].taken[q]
        /\ moved[i].to \in DOMAIN fs
        /\ fs[moved[i].to] = File(moved[i].from)
        /\ \A j \in 1..Len(moved) : moved[j].to = moved[i].to => j = i

\* a.png was in the destination: the first orphan a.png became a_1.png, the
\* second a_2.png
C9_Witness ==
    /\ Len(moved) >= 2
    /\ \E i, j \in 1..Len(moved) :
          /\ i < j
          /\ FileName(moved[i].from) = N_a
          /\ FileName(moved[j].from) = N_a
          /\ FileName(moved[i].to) = N_a1
          /\ FileName(moved[j].to) = N_a2

-----------------------------------------------------------------------------
(* Setup errors of main: Spec *)

SetupErrors == {"Directory does not exist", "Path is not a directory",
                "Failed to canonicalize directory"}

\* nothing was scanned, printed, deleted, recycled or moved
NothingDone ==
    /\ runs = 0
    /\ log = {}
    /\ all_images = {}
    /\ referenced_images = {}
    /\ orphaned_images = <<>>
    /\ out = <<>>
    /\ idx = 0
    /\ moved = <<>>
    /\ trash = {}
    /\ \A p \in DOMAIN fs : fs[p].kind = "file" => fs[p] = File(p)

\* C12: a run whose target is missing ends with the error of a missing
\* directory, one whose target is no directory with the error of that, both
\* without anything done; a run that ends with a setup error has done
\* nothing; and a scan has run only on a target that is a directory, in a run
\* with no setup error.
C12_SetupErrorsComeFirst ==
    /\ (pc # "start" /\ ~Exists(fs, directory)) =>
          (err = "Directory does not exist" /\ pc = "done" /\ NothingDone)
    /\ (pc # "start" /\ Exists(fs, directory) /\ ~IsDir(fs, directory)) =>
          (err = "Path is not a directory" /\ pc = "done" /\ NothingDone)
    /\ err \in SetupErrors => (pc = "done" /\ NothingDone)
    /\ runs > 0 => (IsDir(fs, directory) /\ err \notin SetupErrors)

\* the target is the file /r/d/n.md, unreferenced images lie in /r, and the
\* run is over
C12_Witness ==
    /\ directory = S_file
    /\ err = "Path is not a directory"
    /\ pc = "done"
    /\ IsFile(P_r_a)
    /\ IsFile(P_d_a)
    /\ docs[P_d_n].refs = <<>>
    /\ NothingDone

====
